---- MODULE Spec2Model ----
(***************************************************************************)
(* ESP32Cam connectivity core: the station-link manager (wifi.c), the      *)
(* messaging client (mqtt.c) and the part of app_main (main.c) that ties   *)
(* them together.                                                          *)
(*                                                                         *)
(* Two tasks touch the station-link state: the main task, which runs       *)
(* app_main -> WiFi_Init -> MQTT_Init, and the default event loop task,    *)
(* which runs event_handler once per driver event.  One handler run is     *)
(* one step; WiFi_Init is split at every point where the event loop task   *)
(* can run in between.                                                     *)
(***************************************************************************)
EXTENDS Integers, Sequences, FiniteSets, TLC

\* ------------------------------------------------------------------ wifi.c
WIFI_MAXIMUM_RETRY == 10

WIFI_CONNECTED_BIT == "WIFI_CONNECTED_BIT"
WIFI_FAIL_BIT == "WIFI_FAIL_BIT"

ESP_OK == "ESP_OK"
ESP_FAIL == "ESP_FAIL"

\* Saturation point of the history counter discRun (one past the largest
\* number of disconnect events the handler can see in a row).
DiscRunCap == WIFI_MAXIMUM_RETRY + 2

\* Saturation point of the history counter connReqs.
ConnReqCap == DiscRunCap + 1

\* Bound of the model: calls of WiFi_Init in one run.
MaxInitCalls == 2

VARIABLES
  pc,               \* position of the main task in app_main / WiFi_Init
  s_retry_num,      \* wifi.c: reconnect counter
  wifi_isConnected, \* wifi.c: static bool isConnected
  groupState,       \* s_wifi_event_group: "null", "live" or "deleted"
  bits,             \* bits set in s_wifi_event_group
  waitBits,         \* WiFi_Init: local EventBits_t bits
  regWifi,          \* event_handler registered for WIFI_EVENT / any id
  regIp,            \* event_handler registered for IP_EVENT_STA_GOT_IP
  wifiRet,          \* value WiFi_Init returned to app_main ("none" before)
  driver,           \* station driver: "off", "started", "connecting", "up", "idle"
  \* history variables (not program state)
  ev,               \* the most recent driver event and what became of it
  discRun,          \* disconnect events handled in a row, no got-address among them
  gotIpCount,       \* got-address events handled (saturating at 2)
  discBeforeUp,     \* discRun when the first got-address event was handled
  connReqs,         \* connect requests issued since the last got-address event
  initCalls         \* calls of WiFi_Init so far

wifiVars == <<pc, s_retry_num, wifi_isConnected, groupState, bits, waitBits,
              regWifi, regIp, wifiRet, driver,
              ev, discRun, gotIpCount, discBeforeUp, connReqs, initCalls>>

\* ------------------------------------------------------------ mqtt.c state
VARIABLES
  mpc,              \* position of the main task in MQTT_Init ("idle" before the call)
  client,           \* esp_mqtt client: "null", "init" or "started"
  mqtt_isConnected, \* mqtt.c: static bool isConnected
  BaseTopic,        \* mqtt.c: static char BaseTopic[MAX_BASE_LENGTH], as a string
  xRxQueue,         \* mqtt.c: queue handle, "NULL" or "handle"
  rxItems,          \* the messages held by the queue, oldest first
  hpc,              \* position of the event task inside the MQTT_EVENT_DATA case
  cur,              \* the data event being handled
  broker,           \* broker connection as the client sees it: "down" or "up"
  crashed,          \* the event task dereferenced a NULL queue handle
  mqttRet,          \* value MQTT_Init returned ("none" before)
  txRet,            \* value of the last MQTT_Transmit / Subscribe / Unsubscribe call
  pubCount,         \* publish requests handed to the client
  lastPub,          \* the last publish request handed to the client
  lastSub,          \* the last subscribe / unsubscribe request handed to the client
  pendingAcks,      \* subscribe requests the broker has not acknowledged yet
  \* history variables (not program state)
  apiCalls,         \* calls of MQTT_Transmit / Subscribe / Unsubscribe so far
  txCalls,          \* calls of MQTT_Transmit so far
  dataLog,          \* every data event dispatched so far, in order
  nOdd,             \* data events other than the default one
  consumed,         \* messages taken by consumer tasks
  evicted,          \* messages discarded by the handler
  taken,            \* ids of the messages removed from the queue, in order
  everConnected,    \* a broker-connected event was handled
  logged            \* kind of the last event the handler only logged

mqttRest == <<client, mqtt_isConnected, BaseTopic, xRxQueue, rxItems, hpc, cur,
              broker, crashed, mqttRet, txRet, pubCount, lastPub, lastSub, pendingAcks,
              apiCalls, txCalls, dataLog, nOdd, consumed, evicted, taken, everConnected, logged>>

mqttVars == <<mpc, client, mqtt_isConnected, BaseTopic, xRxQueue, rxItems, hpc, cur,
              broker, crashed, mqttRet, txRet, pubCount, lastPub, lastSub, pendingAcks,
              apiCalls, txCalls, dataLog, nOdd, consumed, evicted, taken, everConnected, logged>>

NoEvent == [kind |-> "none", handled |-> FALSE, connect |-> FALSE, afterReturn |-> FALSE]

\* WiFi_Init has handed ESP_OK back to app_main.
ReturnedOk == wifiRet = ESP_OK

Event(kind, handled, connect) ==
  [kind |-> kind, handled |-> handled, connect |-> connect, afterReturn |-> ReturnedOk]

Min(a, b) == IF a < b THEN a ELSE b

WifiInit ==
  /\ pc = "nvs"
  /\ s_retry_num = 0
  /\ wifi_isConnected = FALSE
  /\ groupState = "null"
  /\ bits = {}
  /\ waitBits = {}
  /\ regWifi = FALSE
  /\ regIp = FALSE
  /\ wifiRet = "none"
  /\ driver = "off"
  /\ ev = NoEvent
  /\ discRun = 0
  /\ gotIpCount = 0
  /\ discBeforeUp = 0
  /\ connReqs = 0
  /\ initCalls = 1

\* ---------------------------------------------------------- event_handler
\* WIFI_EVENT_STA_START: the driver started; issue the first connect request.
OnStaStart ==
  /\ driver = "started"
  /\ IF regWifi
       THEN /\ driver' = "connecting"
            /\ wifi_isConnected' = FALSE
            /\ ev' = Event("STA_START", TRUE, TRUE)
            /\ connReqs' = Min(connReqs + 1, ConnReqCap)
       ELSE /\ driver' = "idle"
            /\ ev' = Event("STA_START", FALSE, FALSE)
            /\ UNCHANGED <<wifi_isConnected, connReqs>>
  /\ UNCHANGED mqttVars
  /\ UNCHANGED <<pc, s_retry_num, groupState, bits, waitBits, regWifi, regIp,
                 wifiRet, discRun, gotIpCount, discBeforeUp, initCalls>>

\* Mutant: the retry test lets one more retry through (<= for <).
HandleDisconnected_OneMoreRetry ==
  /\ IF s_retry_num <= WIFI_MAXIMUM_RETRY
       THEN /\ driver' = "connecting"
            /\ s_retry_num' = s_retry_num + 1
            /\ ev' = Event("DISCONNECTED", TRUE, TRUE)
            /\ connReqs' = Min(connReqs + 1, ConnReqCap)
            /\ UNCHANGED bits
       ELSE /\ bits' = bits \cup {WIFI_FAIL_BIT}
            /\ driver' = "idle"
            /\ ev' = Event("DISCONNECTED", TRUE, FALSE)
            /\ UNCHANGED connReqs
            /\ UNCHANGED s_retry_num
  /\ wifi_isConnected' = FALSE
  /\ discRun' = Min(discRun + 1, DiscRunCap)

\* Mutant: the exhausted budget is not signalled to the waiting task.
HandleDisconnected_NoFailBit ==
  /\ IF s_retry_num < WIFI_MAXIMUM_RETRY
       THEN /\ driver' = "connecting"
            /\ s_retry_num' = s_retry_num + 1
            /\ ev' = Event("DISCONNECTED", TRUE, TRUE)
            /\ connReqs' = Min(connReqs + 1, ConnReqCap)
       ELSE /\ driver' = "idle"
            /\ ev' = Event("DISCONNECTED", TRUE, FALSE)
            /\ UNCHANGED connReqs
            /\ UNCHANGED s_retry_num
  /\ UNCHANGED bits
  /\ wifi_isConnected' = FALSE
  /\ discRun' = Min(discRun + 1, DiscRunCap)

\* Mutant: a retry is issued without being counted.
HandleDisconnected_NoCount ==
  /\ IF s_retry_num < WIFI_MAXIMUM_RETRY
       THEN /\ driver' = "connecting"
            /\ UNCHANGED s_retry_num
            /\ ev' = Event("DISCONNECTED", TRUE, TRUE)
            /\ connReqs' = Min(connReqs + 1, ConnReqCap)
            /\ UNCHANGED bits
       ELSE /\ bits' = bits \cup {WIFI_FAIL_BIT}
            /\ driver' = "idle"
            /\ ev' = Event("DISCONNECTED", TRUE, FALSE)
            /\ UNCHANGED connReqs
            /\ UNCHANGED s_retry_num
  /\ wifi_isConnected' = FALSE
  /\ discRun' = Min(discRun + 1, DiscRunCap)

\* The body of the WIFI_EVENT_STA_DISCONNECTED branch.
HandleDisconnected ==
  /\ IF s_retry_num < WIFI_MAXIMUM_RETRY
       THEN /\ driver' = "connecting"
            /\ s_retry_num' = s_retry_num + 1
            /\ ev' = Event("DISCONNECTED", TRUE, TRUE)
            /\ connReqs' = Min(connReqs + 1, ConnReqCap)
            /\ UNCHANGED bits
       ELSE /\ bits' = bits \cup {WIFI_FAIL_BIT}
            /\ driver' = "idle"
            /\ ev' = Event("DISCONNECTED", TRUE, FALSE)
            /\ UNCHANGED connReqs
            /\ UNCHANGED s_retry_num
  /\ wifi_isConnected' = FALSE
  /\ discRun' = Min(discRun + 1, DiscRunCap)

\* The driver reports a disconnect: a connect request failed, or an
\* established link was lost.  Without a registered handler nobody reconnects.
OnStaDisconnected ==
  /\ driver \in {"connecting", "up"}
  /\ IF regWifi
       THEN HandleDisconnected
       ELSE /\ driver' = "idle"
            /\ ev' = Event("DISCONNECTED", FALSE, FALSE)
            /\ UNCHANGED <<s_retry_num, bits, wifi_isConnected, discRun, connReqs>>
  /\ UNCHANGED mqttVars
  /\ UNCHANGED <<pc, groupState, waitBits, regWifi, regIp, wifiRet,
                 gotIpCount, discBeforeUp, initCalls>>

\* Mutant: the got-address branch forgets to reset the retry counter.
HandleGotIp_NoReset ==
  /\ UNCHANGED s_retry_num
  /\ bits' = bits \cup {WIFI_CONNECTED_BIT}
  /\ wifi_isConnected' = TRUE
  /\ ev' = Event("GOT_IP", TRUE, FALSE)
  /\ discBeforeUp' = IF gotIpCount = 0 THEN discRun ELSE discBeforeUp
  /\ gotIpCount' = Min(gotIpCount + 1, 2)
  /\ discRun' = 0
  /\ connReqs' = 0

\* The body of the IP_EVENT_STA_GOT_IP branch.
HandleGotIp ==
  /\ s_retry_num' = 0
  /\ bits' = bits \cup {WIFI_CONNECTED_BIT}
  /\ wifi_isConnected' = TRUE
  /\ ev' = Event("GOT_IP", TRUE, FALSE)
  /\ discBeforeUp' = IF gotIpCount = 0 THEN discRun ELSE discBeforeUp
  /\ gotIpCount' = Min(gotIpCount + 1, 2)
  /\ discRun' = 0
  /\ connReqs' = 0

\* A connect request succeeded and the interface got its address.
OnGotIp ==
  /\ driver = "connecting"
  /\ driver' = "up"
  /\ IF regIp
       THEN HandleGotIp
       ELSE /\ ev' = Event("GOT_IP", FALSE, FALSE)
            /\ UNCHANGED <<s_retry_num, bits, wifi_isConnected, discBeforeUp,
                           gotIpCount, discRun, connReqs>>
  /\ UNCHANGED mqttVars
  /\ UNCHANGED <<pc, groupState, waitBits, regWifi, regIp, wifiRet, initCalls>>

\* -------------------------------------------------------------- WiFi_Init
\* Mutant: a failed read is recorded, and the bring-up goes on.
WiFi_ReadSettings_GoesOn ==
  /\ pc = "nvs"
  /\ \E nvs \in {"open_failed", "ssid_failed", "pass_failed", "ok"} :
       IF nvs = "ok"
         THEN /\ pc' = "setup"
              /\ UNCHANGED wifiRet
         ELSE /\ pc' = "setup"
              /\ wifiRet' = ESP_FAIL
  /\ UNCHANGED mqttVars
  /\ UNCHANGED <<s_retry_num, wifi_isConnected, groupState, bits, waitBits, regWifi,
                 regIp, driver, ev, discRun, gotIpCount, discBeforeUp, connReqs, initCalls>>

\* Lines 90-108: read the credentials; any failure returns ESP_FAIL at once.
WiFi_ReadSettings ==
  /\ pc = "nvs"
  /\ \E nvs \in {"open_failed", "ssid_failed", "pass_failed", "ok"} :
       IF nvs = "ok"
         THEN /\ pc' = "setup"
              /\ UNCHANGED wifiRet
         ELSE /\ pc' = "wifi_ret"
              /\ wifiRet' = ESP_FAIL
  /\ UNCHANGED mqttVars
  /\ UNCHANGED <<s_retry_num, wifi_isConnected, groupState, bits, waitBits, regWifi,
                 regIp, driver, ev, discRun, gotIpCount, discBeforeUp, connReqs, initCalls>>

\* Lines 110-130: create the event group (no bit set), bring the driver up,
\* register the handler twice and start the station.  Every driver call sits in
\* ESP_ERROR_CHECK, which aborts the process on an error.
WiFi_Setup ==
  /\ pc = "setup"
  /\ \E ok \in BOOLEAN :
       IF ok
         THEN /\ groupState' = "live"
              /\ regWifi' = TRUE
              /\ regIp' = TRUE
              /\ driver' = "started"
              /\ pc' = "wait"
         ELSE /\ groupState' = "live"
              /\ pc' = "aborted"
              /\ UNCHANGED <<regWifi, regIp, driver>>
  /\ bits' = {}
  /\ UNCHANGED mqttVars
  /\ UNCHANGED <<s_retry_num, wifi_isConnected, waitBits, wifiRet,
                 ev, discRun, gotIpCount, discBeforeUp, connReqs, initCalls>>

\* Mutant: the wait ends as soon as the handler has handled any event.
WiFi_Wait_AnyEvent ==
  /\ pc = "wait"
  /\ ev.handled
  /\ waitBits' = bits
  /\ pc' = "eval"
  /\ UNCHANGED mqttVars
  /\ UNCHANGED <<s_retry_num, wifi_isConnected, groupState, bits, regWifi, regIp,
                 wifiRet, driver, ev, discRun, gotIpCount, discBeforeUp, connReqs, initCalls>>

\* Lines 135-136: xEventGroupWaitBits(CONNECTED | FAIL, no clear, any bit,
\* portMAX_DELAY) returns once one of the two bits is set.
WiFi_Wait ==
  /\ pc = "wait"
  /\ bits \cap {WIFI_CONNECTED_BIT, WIFI_FAIL_BIT} # {}
  /\ waitBits' = bits
  /\ pc' = "eval"
  /\ UNCHANGED mqttVars
  /\ UNCHANGED <<s_retry_num, wifi_isConnected, groupState, bits, regWifi, regIp,
                 wifiRet, driver, ev, discRun, gotIpCount, discBeforeUp, connReqs, initCalls>>

\* Lines 140-149: record the outcome in isConnected.
WiFi_Evaluate ==
  /\ pc = "eval"
  /\ wifi_isConnected' = (WIFI_CONNECTED_BIT \in waitBits)
  /\ pc' = "unreg_ip"
  /\ UNCHANGED mqttVars
  /\ UNCHANGED <<s_retry_num, groupState, bits, waitBits, regWifi, regIp, wifiRet,
                 driver, ev, discRun, gotIpCount, discBeforeUp, connReqs, initCalls>>

\* Line 152: unregister the got-address handler (ESP_ERROR_CHECK).
WiFi_UnregisterIp ==
  /\ pc = "unreg_ip"
  /\ \E ok \in BOOLEAN :
       IF ok
         THEN /\ regIp' = FALSE
              /\ pc' = "unreg_wifi"
         ELSE /\ pc' = "aborted"
              /\ UNCHANGED regIp
  /\ UNCHANGED mqttVars
  /\ UNCHANGED <<s_retry_num, wifi_isConnected, groupState, bits, waitBits, regWifi,
                 wifiRet, driver, ev, discRun, gotIpCount, discBeforeUp, connReqs, initCalls>>

\* Line 153: unregister the WIFI_EVENT handler (ESP_ERROR_CHECK).
WiFi_UnregisterWifi ==
  /\ pc = "unreg_wifi"
  /\ \E ok \in BOOLEAN :
       IF ok
         THEN /\ regWifi' = FALSE
              /\ pc' = "delete"
         ELSE /\ pc' = "aborted"
              /\ UNCHANGED regWifi
  /\ UNCHANGED mqttVars
  /\ UNCHANGED <<s_retry_num, wifi_isConnected, groupState, bits, waitBits, regIp,
                 wifiRet, driver, ev, discRun, gotIpCount, discBeforeUp, connReqs, initCalls>>

\* The value of the return statement on line 156.
WiFi_InitResult == ESP_OK

\* Lines 154-156: delete the event group and return.
WiFi_Return ==
  /\ pc = "delete"
  /\ groupState' = "deleted"
  /\ wifiRet' = WiFi_InitResult
  /\ pc' = "wifi_ret"
  /\ UNCHANGED mqttVars
  /\ UNCHANGED <<s_retry_num, wifi_isConnected, bits, waitBits, regWifi, regIp,
                 driver, ev, discRun, gotIpCount, discBeforeUp, connReqs, initCalls>>

\* A caller calls WiFi_Init once more after it came back from an exhausted
\* retry budget (line 75; waitBits is the new call's local variable).
WiFi_InitAgain ==
  /\ pc = "wifi_ret"
  /\ wifiRet # "none"
  /\ WIFI_FAIL_BIT \in waitBits
  /\ WIFI_CONNECTED_BIT \notin waitBits
  /\ initCalls < MaxInitCalls
  /\ initCalls' = initCalls + 1
  /\ pc' = "nvs"
  /\ wifiRet' = "none"
  /\ waitBits' = {}
  /\ UNCHANGED mqttVars
  /\ UNCHANGED <<s_retry_num, wifi_isConnected, groupState, bits, regWifi, regIp,
                 driver, ev, discRun, gotIpCount, discBeforeUp, connReqs>>

\* wifi.c line 163.
WiFi_isConnected == wifi_isConnected

\* ---------------------------------------------------------------- app_main
\* main.c lines 354-359: MQTT_Init is called iff WiFi_Init returned ESP_OK.
AppMain_AfterWiFi ==
  /\ pc = "wifi_ret"
  /\ IF wifiRet = ESP_OK
       THEN /\ mpc' = "nvs"
            /\ pc' = "mqtt_init"
       ELSE /\ pc' = "loop"
            /\ UNCHANGED mpc
  /\ UNCHANGED mqttRest
  /\ UNCHANGED <<s_retry_num, wifi_isConnected, groupState, bits, waitBits, regWifi,
                 regIp, wifiRet, driver, ev, discRun, gotIpCount, discBeforeUp, connReqs, initCalls>>

\* app_main has called MQTT_Init.
MqttInitCalled == mpc # "idle"

\* ------------------------------------------------------------------ mqtt.c
MAX_TOPIC_LEN == 250
MAX_BASE_LENGTH == 128
MAX_PAYLOAD == 128
MAX_RXMSG == 10

\* The xTicksToWait arguments of the handler's queue calls.
RxWaitTicks == 0  \* line 94: xQueueReceive(xRxQueue, &RxMsg, 0)
TxWaitTicks == 0  \* line 114: xQueueSend(xRxQueue, &RxMsg, 0)

\* sizeof(RxMsg.SubTopic), mqtt.h line 33.
SubTopicCap == MAX_TOPIC_LEN - MAX_BASE_LENGTH

\* Bounds of the model.
MaxData == 12     \* data events dispatched in one run
MaxOdd == 1       \* data events of one run that differ from the default event
MaxCalls == 1     \* calls of the publish / subscribe / unsubscribe operations
MaxLongData == 2  \* data events of one run with inputs around the buffer sizes

\* Strings are sequences of one-character strings.
MQTT_ID == <<"E", "S", "P", "3", "2", "C", "A", "M">>
Slash == <<"/">>

HexDigits == <<"0", "1", "2", "3", "4", "5", "6", "7",
               "8", "9", "a", "b", "c", "d", "e", "f">>

\* "%02x" of one byte.
Hex2(b) == <<HexDigits[(b \div 16) + 1], HexDigits[(b % 16) + 1]>>

Take(s, n) == SubSeq(s, 1, Min(Len(s), n))

\* snprintf(buf, size, ...): at most size - 1 characters are stored.
Snprintf(size, s) == Take(s, size - 1)

\* The device's hardware address, as esp_efuse_mac_get_default reports it.
Mac == <<170, 187, 204, 17, 34, 51>>

\* mqtt.c lines 162-163.
FormatBaseTopic(mac) ==
  Snprintf(MAX_BASE_LENGTH,
           MQTT_ID \o <<"_">> \o Hex2(mac[1]) \o Hex2(mac[2]) \o Hex2(mac[3])
                   \o Hex2(mac[4]) \o Hex2(mac[5]) \o Hex2(mac[6]))

\* snprintf(FullTopic, MAX_TOPIC_LEN, "%s/%s", BaseTopic, SubTopic).
FullTopic(base, sub) == Snprintf(MAX_TOPIC_LEN, base \o Slash \o sub)

\* The namespace of this device, which the broker's topics are built on.
DeviceBase == FormatBaseTopic(Mac)

CmdReset == <<"c", "m", "d", "/", "r", "e", "s", "e", "t">>
Status == <<"S", "t", "a", "t", "u", "s">>
On == <<"o", "n">>

\* Inputs of the data events: topics around the validation boundary.
DefaultTopic == DeviceBase \o Slash \o CmdReset
DefaultPayload == On
TopicInputs ==
  { DefaultTopic,
    DeviceBase \o Slash,
    DeviceBase,
    Take(DeviceBase, Len(DeviceBase) - 1) }
PayloadInputs == { DefaultPayload }
SubTopicInputs == { Status }

\* A text of n characters, no two neighbours alike.
LongText(n) == [i \in 1..n |-> HexDigits[(i % 16) + 1]]

\* A data event whose relative topic has l bytes and whose data has d bytes.
LongData(l, d) == [topic |-> DeviceBase \o Slash \o LongText(l), data |-> LongText(d)]

\* Inputs around the sizes of the buffers: a relative topic and a payload
\* one byte too long for the message, relative topics of sizeof(cBuffer)
\* and one byte more, and SubTopic arguments around sizeof(SubTopic) and
\* around what fits into FullTopic.
LongDataInputs ==
  { LongData(SubTopicCap + 1, MAX_PAYLOAD + 1),
    LongData(MAX_TOPIC_LEN, 0),
    LongData(MAX_TOPIC_LEN + 1, 0) }
LongSubTopicInputs ==
  { LongText(n) :
      n \in {0, SubTopicCap, SubTopicCap + 1, MAX_TOPIC_LEN - Len(DeviceBase) - 1} }

NoData == [topic |-> <<>>, data |-> <<>>, id |-> 0]
NoPub == [topic |-> <<>>, qos |-> 0, retain |-> FALSE]
\* msg_id: what the client returned (negative: rejected); sub: the SubTopic argument.
NoSub == [op |-> "none", topic |-> <<>>, msg_id |-> 0, sub |-> <<>>]

MqttIdle ==
  /\ client = "null"
  /\ mqtt_isConnected = FALSE
  /\ BaseTopic = <<>>
  /\ xRxQueue = "NULL"
  /\ rxItems = <<>>
  /\ hpc = "idle"
  /\ cur = NoData
  /\ broker = "down"
  /\ crashed = FALSE
  /\ mqttRet = "none"
  /\ txRet = "none"
  /\ pubCount = 0
  /\ lastPub = NoPub
  /\ lastSub = NoSub
  /\ pendingAcks = 0
  /\ apiCalls = 0
  /\ txCalls = 0
  /\ dataLog = <<>>
  /\ nOdd = 0
  /\ consumed = 0
  /\ evicted = 0
  /\ taken = <<>>
  /\ everConnected = FALSE
  /\ logged = "none"

\* The process is running: neither aborted by ESP_ERROR_CHECK nor panicked.
Alive == mpc # "aborted" /\ ~crashed

\* --------------------------------------------------------------- MQTT_Init
\* Lines 144-148: read the broker URL; both calls sit in ESP_ERROR_CHECK.
MQTT_ReadUrl ==
  /\ mpc = "nvs"
  /\ \E nvs \in {"open_failed", "url_failed", "ok"} :
       mpc' = IF nvs = "ok" THEN "client" ELSE "aborted"
  /\ UNCHANGED mqttRest
  /\ UNCHANGED wifiVars

\* Lines 155-158: create the client, register mqtt_event_handler, start it.
MQTT_StartClient ==
  /\ mpc = "client"
  /\ client' = "started"
  /\ mpc' = "basetopic"
  /\ UNCHANGED <<mqtt_isConnected, BaseTopic, xRxQueue, rxItems, hpc, cur, broker,
                 crashed, mqttRet, txRet, pubCount, lastPub, lastSub, pendingAcks,
                 apiCalls, txCalls, dataLog, nOdd, consumed, evicted, taken, everConnected, logged>>
  /\ UNCHANGED wifiVars

\* Lines 161-164: render the base topic (ESP_ERROR_CHECK on the MAC read).
MQTT_MakeBaseTopic ==
  /\ mpc = "basetopic"
  /\ Alive
  /\ \E ok \in BOOLEAN :
       IF ok
         THEN /\ BaseTopic' = FormatBaseTopic(Mac)
              /\ mpc' = "queue"
         ELSE /\ mpc' = "aborted"
              /\ UNCHANGED BaseTopic
  /\ UNCHANGED <<client, mqtt_isConnected, xRxQueue, rxItems, hpc, cur, broker,
                 crashed, mqttRet, txRet, pubCount, lastPub, lastSub, pendingAcks,
                 apiCalls, txCalls, dataLog, nOdd, consumed, evicted, taken, everConnected, logged>>
  /\ UNCHANGED wifiVars

\* Lines 167-172: create the queue; a failed allocation is only logged.
MQTT_CreateQueue ==
  /\ mpc = "queue"
  /\ Alive
  /\ \E ok \in BOOLEAN :
       xRxQueue' = IF ok THEN "handle" ELSE "NULL"
  /\ mqttRet' = ESP_OK
  /\ mpc' = "done"
  /\ UNCHANGED <<client, mqtt_isConnected, BaseTopic, rxItems, hpc, cur, broker,
                 crashed, txRet, pubCount, lastPub, lastSub, pendingAcks,
                 apiCalls, txCalls, dataLog, nOdd, consumed, evicted, taken, everConnected, logged>>
  /\ UNCHANGED wifiVars

\* ------------------------------------------------------ mqtt_event_handler
\* The client's task dispatches one event at a time.
CanDispatch == client = "started" /\ Alive /\ hpc = "idle"

\* MQTT_EVENT_CONNECTED.
OnMqttConnected ==
  /\ CanDispatch
  /\ broker = "down"
  /\ broker' = "up"
  /\ mqtt_isConnected' = TRUE
  /\ everConnected' = TRUE
  /\ UNCHANGED <<mpc, client, BaseTopic, xRxQueue, rxItems, hpc, cur, crashed, mqttRet,
                 txRet, pubCount, lastPub, lastSub, pendingAcks, apiCalls, txCalls,
                 dataLog, nOdd, consumed, evicted, taken, logged>>
  /\ UNCHANGED wifiVars

\* Mutant: the disconnect is logged, the flag stays as it is.
OnMqttDisconnected_KeepsFlag ==
  /\ CanDispatch
  /\ broker = "up"
  /\ broker' = "down"
  /\ UNCHANGED <<mpc, client, mqtt_isConnected, BaseTopic, xRxQueue, rxItems, hpc, cur,
                 crashed, mqttRet,
                 txRet, pubCount, lastPub, lastSub, pendingAcks, apiCalls, txCalls,
                 dataLog, nOdd, consumed, evicted, taken, everConnected, logged>>
  /\ UNCHANGED wifiVars

\* MQTT_EVENT_DISCONNECTED.
OnMqttDisconnected ==
  /\ CanDispatch
  /\ broker = "up"
  /\ broker' = "down"
  /\ mqtt_isConnected' = FALSE
  /\ UNCHANGED <<mpc, client, BaseTopic, xRxQueue, rxItems, hpc, cur, crashed, mqttRet,
                 txRet, pubCount, lastPub, lastSub, pendingAcks, apiCalls, txCalls,
                 dataLog, nOdd, consumed, evicted, taken, everConnected, logged>>
  /\ UNCHANGED wifiVars

\* MQTT_EVENT_SUBSCRIBED: lines 74-78 publish "data" to "/topic/qos0", QoS 0.
OnMqttSubscribed ==
  /\ CanDispatch
  /\ broker = "up"
  /\ pendingAcks > 0
  /\ pendingAcks' = pendingAcks - 1
  /\ lastPub' = [topic |-> <<"/", "t", "o", "p", "i", "c", "/", "q", "o", "s", "0">>,
                 qos |-> 0, retain |-> FALSE]
  /\ pubCount' = pubCount + 1
  /\ UNCHANGED <<mpc, client, mqtt_isConnected, BaseTopic, xRxQueue, rxItems, hpc, cur,
                 broker, crashed, mqttRet, txRet, lastSub, apiCalls, txCalls,
                 dataLog, nOdd, consumed, evicted, taken, everConnected, logged>>
  /\ UNCHANGED wifiVars

\* UNSUBSCRIBED, PUBLISHED, BEFORE_CONNECT, ERROR and any other id: logged only.
OnMqttOther ==
  /\ CanDispatch
  /\ \E kind \in {"UNSUBSCRIBED", "PUBLISHED", "BEFORE_CONNECT", "ERROR", "OTHER"} :
       logged' = kind
  /\ UNCHANGED <<mpc, client, mqtt_isConnected, BaseTopic, xRxQueue, rxItems, hpc, cur,
                 broker, crashed, mqttRet, txRet, pubCount, lastPub, lastSub, pendingAcks,
                 apiCalls, txCalls, dataLog, nOdd, consumed, evicted, taken, everConnected>>
  /\ UNCHANGED wifiVars

\* Line 92: uxQueueSpacesAvailable(xRxQueue) == 0.
QueueFull == Len(rxItems) = MAX_RXMSG

\* MQTT_EVENT_DATA, lines 85-92: the event arrives and the handler tests the
\* queue for free space.  A NULL handle is dereferenced: the task panics.
DataDispatch(topic, data) ==
  /\ dataLog' = Append(dataLog, [topic |-> topic, data |-> data])
  /\ cur' = [topic |-> topic, data |-> data, id |-> Len(dataLog) + 1]
  /\ IF xRxQueue = "NULL"
       THEN /\ crashed' = TRUE
            /\ UNCHANGED hpc
       ELSE /\ hpc' = IF QueueFull THEN "evict" ELSE "copy"
            /\ UNCHANGED crashed
  /\ UNCHANGED <<mpc, client, mqtt_isConnected, BaseTopic, xRxQueue, rxItems, broker,
                 mqttRet, txRet, pubCount, lastPub, lastSub, pendingAcks, apiCalls,
                 txCalls, consumed, evicted, taken, everConnected, logged>>
  /\ UNCHANGED wifiVars

\* A data event with a topic around the validation boundary.
OnMqttData ==
  /\ CanDispatch
  /\ broker = "up"
  /\ Len(dataLog) < MaxData
  /\ \E topic \in TopicInputs, data \in PayloadInputs :
       LET odd == topic # DefaultTopic \/ data # DefaultPayload IN
       /\ odd => nOdd < MaxOdd
       /\ nOdd' = IF odd THEN nOdd + 1 ELSE nOdd
       /\ DataDispatch(topic, data)

\* A data event with a long topic or payload, or one on the topic the
\* device subscribed to.
OnMqttLongData ==
  /\ CanDispatch
  /\ broker = "up"
  /\ Len(dataLog) < MaxLongData
  /\ \E e \in LongDataInputs \cup
               (IF lastSub.op = "subscribe" /\ lastSub.msg_id > 0
                  THEN {[topic |-> lastSub.topic, data |-> <<>>]} ELSE {}) :
       /\ UNCHANGED nOdd
       /\ DataDispatch(e.topic, e.data)

\* Mutant: a full queue is left as it is (the new message is lost instead).
DataEvict_KeepOldest ==
  /\ hpc = "evict"
  /\ Alive
  /\ hpc' = "copy"
  /\ UNCHANGED <<mpc, client, mqtt_isConnected, BaseTopic, xRxQueue, rxItems, cur, broker,
                 crashed, mqttRet, txRet, pubCount, lastPub, lastSub, pendingAcks,
                 apiCalls, txCalls, dataLog, nOdd, consumed, evicted, taken, everConnected, logged>>
  /\ UNCHANGED wifiVars

\* Mutant: the eviction waits (portMAX_DELAY) until the queue holds a message.
DataEvict_WaitsForMessage ==
  /\ hpc = "evict"
  /\ Alive
  /\ rxItems # <<>>
  /\ rxItems' = Tail(rxItems)
  /\ evicted' = evicted + 1
  /\ taken' = Append(taken, Head(rxItems).id)
  /\ hpc' = "copy"
  /\ UNCHANGED <<mpc, client, mqtt_isConnected, BaseTopic, xRxQueue, cur, broker,
                 crashed, mqttRet, txRet, pubCount, lastPub, lastSub, pendingAcks,
                 apiCalls, txCalls, dataLog, nOdd, consumed, everConnected, logged>>
  /\ UNCHANGED wifiVars

\* Lines 93-94: xQueueReceive(xRxQueue, &RxMsg, 0) takes the oldest message,
\* if there is one.  On an empty queue the call returns at once when its
\* wait time is 0 and waits for a message otherwise.
DataEvict ==
  /\ hpc = "evict"
  /\ Alive
  /\ (rxItems # <<>> \/ RxWaitTicks = 0)
  /\ IF rxItems # <<>>
       THEN /\ rxItems' = Tail(rxItems)
            /\ evicted' = evicted + 1
            /\ taken' = Append(taken, Head(rxItems).id)
       ELSE UNCHANGED <<rxItems, evicted, taken>>
  /\ hpc' = "copy"
  /\ UNCHANGED <<mpc, client, mqtt_isConnected, BaseTopic, xRxQueue, cur, broker,
                 crashed, mqttRet, txRet, pubCount, lastPub, lastSub, pendingAcks,
                 apiCalls, txCalls, dataLog, nOdd, consumed, everConnected, logged>>
  /\ UNCHANGED wifiVars

\* Mutant: a topic as long as the base topic passes the validation.
TopicAccepted_OrEqual(baseLen, topicLen) == baseLen > 0 /\ baseLen <= topicLen

\* Line 99: the topic is accepted when it is longer than the base topic.
TopicAccepted(baseLen, topicLen) == baseLen > 0 /\ baseLen < topicLen

\* Mutant: the separator is copied along with the relative topic.
ScratchOf_KeepsSeparator(topic, baseLen) == SubSeq(topic, baseLen + 1, Len(topic))

\* Lines 101-103: everything after "basetopic/" goes to the scratch buffer.
ScratchOf(topic, baseLen) == SubSeq(topic, baseLen + 2, Len(topic))

\* Lines 106-108: at most MAX_TOPIC_LEN - MAX_BASE_LENGTH bytes reach SubTopic.
SubTopicOf(topic, baseLen) ==
  LET cBuffer == ScratchOf(topic, baseLen) IN
  Take(cBuffer, Min(MAX_TOPIC_LEN - MAX_BASE_LENGTH, Len(cBuffer)))

\* Line 109: at most MAX_PAYLOAD bytes reach Payload.
PayloadOf(data) == Take(data, Min(Len(data), MAX_PAYLOAD))

\* The MQTT_RXMessage built from an event (id: which event it came from).
RxMsgOf(e, baseLen) ==
  [SubTopic |-> SubTopicOf(e.topic, baseLen), Payload |-> PayloadOf(e.data), id |-> e.id]

\* Lines 102-103 copy topic_len - BaseTopic_len - 1 bytes into
\* char cBuffer[MAX_TOPIC_LEN]: more than MAX_TOPIC_LEN bytes are written past
\* its end, and exactly MAX_TOPIC_LEN bytes leave it without the terminator
\* that strlen(cBuffer) on line 108 looks for.  Both are undefined behaviour.
ScratchOverrun(baseLen, topicLen) == topicLen - baseLen - 1 >= MAX_TOPIC_LEN

\* What a message may hold in place of its relative topic after an overrun.
Garbled == <<"?">>

\* Line 114: xQueueSend(xRxQueue, &RxMsg, 0); a full queue refuses the message.
QueueSend(msg) ==
  rxItems' = IF Len(rxItems) < MAX_RXMSG THEN Append(rxItems, msg) ELSE rxItems

\* Lines 97-120: validate the topic, build the message, send it.  On a full
\* queue xQueueSend returns at once when its wait time is 0.
DataEnqueue ==
  /\ hpc = "copy"
  /\ Alive
  /\ (Len(rxItems) < MAX_RXMSG \/ TxWaitTicks = 0)
  /\ LET BaseTopic_len == Len(BaseTopic) IN
       IF ~TopicAccepted(BaseTopic_len, Len(cur.topic))
         THEN /\ hpc' = "idle"
              /\ UNCHANGED <<rxItems, crashed>>
         ELSE IF ScratchOverrun(BaseTopic_len, Len(cur.topic))
           THEN \E outcome \in {"intact", "garbled", "panic"} :
                  IF outcome = "panic"
                    THEN /\ crashed' = TRUE
                         /\ UNCHANGED <<rxItems, hpc>>
                    ELSE /\ QueueSend(IF outcome = "intact"
                                        THEN RxMsgOf(cur, BaseTopic_len)
                                        ELSE [RxMsgOf(cur, BaseTopic_len)
                                                EXCEPT !.SubTopic = Garbled])
                         /\ hpc' = "idle"
                         /\ UNCHANGED crashed
           ELSE /\ QueueSend(RxMsgOf(cur, BaseTopic_len))
                /\ hpc' = "idle"
                /\ UNCHANGED crashed
  /\ UNCHANGED <<mpc, client, mqtt_isConnected, BaseTopic, xRxQueue, cur, broker,
                 mqttRet, txRet, pubCount, lastPub, lastSub, pendingAcks,
                 apiCalls, txCalls, dataLog, nOdd, consumed, evicted, taken, everConnected, logged>>
  /\ UNCHANGED wifiVars

\* ------------------------------------------------------------- public API
\* The application tasks are created after MQTT_Init has returned.
CanCall == mpc = "done" /\ Alive /\ apiCalls < MaxCalls

\* Mutant: the connection flag is not consulted before publishing.
MQTT_Transmit_NoFlagCheck ==
  /\ CanCall
  /\ apiCalls' = apiCalls + 1
  /\ txCalls' = txCalls + 1
  /\ \E SubTopic \in SubTopicInputs, accepted \in BOOLEAN :
       /\ lastPub' = [topic |-> FullTopic(BaseTopic, SubTopic),
                      qos |-> 1, retain |-> FALSE]
       /\ pubCount' = pubCount + 1
       /\ txRet' = IF accepted THEN ESP_OK ELSE ESP_FAIL
  /\ UNCHANGED <<mpc, client, mqtt_isConnected, BaseTopic, xRxQueue, rxItems, hpc, cur,
                 broker, crashed, mqttRet, lastSub, pendingAcks, dataLog, nOdd,
                 consumed, evicted, taken, everConnected, logged>>
  /\ UNCHANGED wifiVars

\* MQTT_Transmit, lines 175-194.  accepted: the client returned a message
\* id >= 0.
MQTT_Transmit ==
  /\ CanCall
  /\ apiCalls' = apiCalls + 1
  /\ txCalls' = txCalls + 1
  /\ \E SubTopic \in SubTopicInputs, accepted \in BOOLEAN :
       IF ~mqtt_isConnected
         THEN /\ txRet' = ESP_FAIL
              /\ UNCHANGED <<lastPub, pubCount>>
         ELSE /\ lastPub' = [topic |-> FullTopic(BaseTopic, SubTopic),
                             qos |-> 1, retain |-> FALSE]
              /\ pubCount' = pubCount + 1
              /\ txRet' = IF accepted THEN ESP_OK ELSE ESP_FAIL
  /\ UNCHANGED <<mpc, client, mqtt_isConnected, BaseTopic, xRxQueue, rxItems, hpc, cur,
                 broker, crashed, mqttRet, lastSub, pendingAcks, dataLog, nOdd,
                 consumed, evicted, taken, everConnected, logged>>
  /\ UNCHANGED wifiVars

\* Mutant: subscribing is refused, like publishing, while the flag is false.
MQTT_Subscribe_FlagChecked ==
  /\ CanCall
  /\ apiCalls' = apiCalls + 1
  /\ \E SubTopic \in SubTopicInputs, accepted \in BOOLEAN :
       IF ~mqtt_isConnected
         THEN /\ txRet' = ESP_FAIL
              /\ UNCHANGED <<lastSub, pendingAcks>>
         ELSE /\ accepted => broker = "up"
              /\ lastSub' = [op |-> "subscribe", topic |-> FullTopic(BaseTopic, SubTopic),
                             msg_id |-> IF accepted THEN 1 ELSE -1, sub |-> SubTopic]
              /\ pendingAcks' = IF accepted THEN pendingAcks + 1 ELSE pendingAcks
              /\ txRet' = IF accepted THEN ESP_OK ELSE ESP_FAIL
  /\ UNCHANGED <<mpc, client, mqtt_isConnected, BaseTopic, xRxQueue, rxItems, hpc, cur,
                 broker, crashed, mqttRet, pubCount, lastPub, txCalls, dataLog, nOdd,
                 consumed, evicted, taken, everConnected, logged>>
  /\ UNCHANGED wifiVars

\* MQTT_Subscribe, lines 196-209.  The client rejects the request while the
\* transport is down.
MQTT_Subscribe ==
  /\ CanCall
  /\ apiCalls' = apiCalls + 1
  /\ \E SubTopic \in SubTopicInputs, accepted \in BOOLEAN :
       /\ accepted => broker = "up"
       /\ lastSub' = [op |-> "subscribe", topic |-> FullTopic(BaseTopic, SubTopic),
                      msg_id |-> IF accepted THEN 1 ELSE -1, sub |-> SubTopic]
       /\ pendingAcks' = IF accepted THEN pendingAcks + 1 ELSE pendingAcks
       /\ txRet' = IF accepted THEN ESP_OK ELSE ESP_FAIL
  /\ UNCHANGED <<mpc, client, mqtt_isConnected, BaseTopic, xRxQueue, rxItems, hpc, cur,
                 broker, crashed, mqttRet, pubCount, lastPub, txCalls, dataLog, nOdd,
                 consumed, evicted, taken, everConnected, logged>>
  /\ UNCHANGED wifiVars

\* MQTT_Subscribe called with a SubTopic around what fits into FullTopic.
MQTT_SubscribeLong ==
  /\ CanCall
  /\ apiCalls' = apiCalls + 1
  /\ \E SubTopic \in LongSubTopicInputs, accepted \in BOOLEAN :
       /\ accepted => broker = "up"
       /\ lastSub' = [op |-> "subscribe", topic |-> FullTopic(BaseTopic, SubTopic),
                      msg_id |-> IF accepted THEN 1 ELSE -1, sub |-> SubTopic]
       /\ pendingAcks' = IF accepted THEN pendingAcks + 1 ELSE pendingAcks
       /\ txRet' = IF accepted THEN ESP_OK ELSE ESP_FAIL
  /\ UNCHANGED <<mpc, client, mqtt_isConnected, BaseTopic, xRxQueue, rxItems, hpc, cur,
                 broker, crashed, mqttRet, pubCount, lastPub, txCalls, dataLog, nOdd,
                 consumed, evicted, taken, everConnected, logged>>
  /\ UNCHANGED wifiVars

\* MQTT_Unsubscribe, lines 211-224.
MQTT_Unsubscribe ==
  /\ CanCall
  /\ apiCalls' = apiCalls + 1
  /\ \E SubTopic \in SubTopicInputs, accepted \in BOOLEAN :
       /\ accepted => broker = "up"
       /\ lastSub' = [op |-> "unsubscribe", topic |-> FullTopic(BaseTopic, SubTopic),
                      msg_id |-> IF accepted THEN 1 ELSE -1, sub |-> SubTopic]
       /\ txRet' = IF accepted THEN ESP_OK ELSE ESP_FAIL
  /\ UNCHANGED <<mpc, client, mqtt_isConnected, BaseTopic, xRxQueue, rxItems, hpc, cur,
                 broker, crashed, mqttRet, pubCount, lastPub, pendingAcks, txCalls,
                 dataLog, nOdd, consumed, evicted, taken, everConnected, logged>>
  /\ UNCHANGED wifiVars

\* mqtt.c line 228.
MQTT_isConnected == mqtt_isConnected

\* Mutant: a consumer reads the oldest message and leaves it in the queue.
ConsumerReceive_Peek ==
  /\ Alive
  /\ xRxQueue = "handle"
  /\ rxItems # <<>>
  /\ consumed' = consumed + 1
  /\ taken' = Append(taken, Head(rxItems).id)
  /\ UNCHANGED <<mpc, client, mqtt_isConnected, BaseTopic, xRxQueue, rxItems, hpc, cur,
                 broker, crashed, mqttRet, txRet, pubCount, lastPub, lastSub, pendingAcks,
                 apiCalls, txCalls, dataLog, nOdd, evicted, everConnected, logged>>
  /\ UNCHANGED wifiVars

\* A consumer task (any of them) receives from the queue MQTT_GetRxQueue
\* hands out.
ConsumerReceive ==
  /\ Alive
  /\ xRxQueue = "handle"
  /\ rxItems # <<>>
  /\ rxItems' = Tail(rxItems)
  /\ consumed' = consumed + 1
  /\ taken' = Append(taken, Head(rxItems).id)
  /\ UNCHANGED <<mpc, client, mqtt_isConnected, BaseTopic, xRxQueue, hpc, cur, broker,
                 crashed, mqttRet, txRet, pubCount, lastPub, lastSub, pendingAcks,
                 apiCalls, txCalls, dataLog, nOdd, evicted, everConnected, logged>>
  /\ UNCHANGED wifiVars

\* ------------------------------------------------------- specifications
MainTask ==
  \/ WiFi_ReadSettings
  \/ WiFi_Setup
  \/ WiFi_Wait
  \/ WiFi_Evaluate
  \/ WiFi_UnregisterIp
  \/ WiFi_UnregisterWifi
  \/ WiFi_Return
  \/ AppMain_AfterWiFi

\* The driver answers the start request and every connect request.
DriverAnswer ==
  \/ OnStaStart
  \/ (driver = "connecting" /\ OnStaDisconnected)
  \/ OnGotIp

\* An established link is lost.
LinkLoss == driver = "up" /\ OnStaDisconnected

vars == <<wifiVars, mqttVars>>

\* The station link, from the start of app_main to the call of MQTT_Init.
Init == WifiInit /\ mpc = "idle" /\ MqttIdle

Next == MainTask \/ DriverAnswer \/ LinkLoss

Spec == Init /\ [][Next]_vars

\* The main task is scheduled, and the driver answers each request.
FairSpec == Spec /\ WF_vars(MainTask) /\ WF_vars(DriverAnswer)

\* The station link with a caller that may call WiFi_Init again after a
\* failure instead of going on.
RecallNext == Next \/ WiFi_InitAgain

RecallSpec == Init /\ [][RecallNext]_vars

\* The state of the station link when WiFi_Init has returned after a first
\* got-address event and app_main calls MQTT_Init.
WifiUp ==
  /\ pc = "mqtt_init"
  /\ s_retry_num = 0
  /\ wifi_isConnected = TRUE
  /\ groupState = "deleted"
  /\ bits = {WIFI_CONNECTED_BIT}
  /\ waitBits = {WIFI_CONNECTED_BIT}
  /\ regWifi = FALSE
  /\ regIp = FALSE
  /\ wifiRet = ESP_OK
  /\ driver = "up"
  /\ ev = [kind |-> "GOT_IP", handled |-> TRUE, connect |-> FALSE, afterReturn |-> FALSE]
  /\ discRun = 0
  /\ gotIpCount = 1
  /\ discBeforeUp = 0
  /\ connReqs = 0
  /\ initCalls = 1

\* The messaging client, from the call of MQTT_Init on: initialisation, the
\* connection lifecycle and the public operations.
MqttInit == WifiUp /\ mpc = "nvs" /\ MqttIdle

MqttNext ==
  \/ MQTT_ReadUrl
  \/ MQTT_StartClient
  \/ MQTT_MakeBaseTopic
  \/ MQTT_CreateQueue
  \/ OnMqttConnected
  \/ OnMqttDisconnected
  \/ OnMqttSubscribed
  \/ OnMqttOther
  \/ MQTT_Transmit
  \/ MQTT_Subscribe
  \/ MQTT_Unsubscribe

MqttSpec == MqttInit /\ [][MqttNext]_vars

\* The state in which MQTT_Init returns when no broker event has been
\* handled yet; the queue allocation may have failed.
MqttReady ==
  /\ mpc = "done"
  /\ client = "started"
  /\ mqtt_isConnected = FALSE
  /\ BaseTopic = FormatBaseTopic(Mac)
  /\ xRxQueue \in {"handle", "NULL"}
  /\ rxItems = <<>>
  /\ hpc = "idle"
  /\ cur = NoData
  /\ broker = "down"
  /\ crashed = FALSE
  /\ mqttRet = ESP_OK
  /\ txRet = "none"
  /\ pubCount = 0
  /\ lastPub = NoPub
  /\ lastSub = NoSub
  /\ pendingAcks = 0
  /\ apiCalls = 0
  /\ txCalls = 0
  /\ dataLog = <<>>
  /\ nOdd = 0
  /\ consumed = 0
  /\ evicted = 0
  /\ taken = <<>>
  /\ everConnected = FALSE
  /\ logged = "none"

\* The inbound path once MQTT_Init has returned: data events, consumers,
\* the connection lifecycle and MQTT_Transmit.
QueueInit == WifiUp /\ MqttReady

QueueNext ==
  \/ OnMqttConnected
  \/ OnMqttDisconnected
  \/ OnMqttData
  \/ DataEvict
  \/ DataEnqueue
  \/ ConsumerReceive
  \/ MQTT_Transmit

QueueSpec == QueueInit /\ [][QueueNext]_vars

\* The whole messaging client from the call of MQTT_Init on: every event
\* the handler knows, every public operation, and the consumers.
MsgNext ==
  \/ MqttNext
  \/ OnMqttLongData
  \/ DataEnqueue
  \/ ConsumerReceive

MsgSpec == MqttInit /\ [][MsgNext]_vars

\* Topics and payloads around the buffer sizes: a subscription, and data
\* events, few enough that the queue never fills.
TopicNext ==
  \/ OnMqttConnected
  \/ MQTT_SubscribeLong
  \/ OnMqttLongData
  \/ DataEnqueue

TopicSpec == QueueInit /\ [][TopicNext]_vars

\* ------------------------------------------------------------ properties
\* WiFi_Init was released from its wait by the fail signal alone.
ReleasedByFail == WIFI_FAIL_BIT \in waitBits /\ WIFI_CONNECTED_BIT \notin waitBits

\* C1: when WiFi_Init was released because the retry budget was exhausted
\* (fail signal, no connected signal), what it returns is not the ESP_OK it
\* returns after a link-up.
C1_FailedInitReturnsError ==
  (wifiRet # "none" /\ ReleasedByFail) => wifiRet # ESP_OK

\* C2, as stated: once 10 disconnect events in a row (no got-address event
\* among them) have been handled, the fail signal has been posted, and
\* WiFi_Init then reports the failure.
C2_TenDisconnectsFail ==
  /\ discRun >= WIFI_MAXIMUM_RETRY => WIFI_FAIL_BIT \in bits
  /\ (wifiRet # "none" /\ ReleasedByFail) => wifiRet # ESP_OK

\* C2, amended: the fail signal is posted exactly when the 11th disconnect
\* event in a row (WIFI_MAXIMUM_RETRY + 1) has been handled; up to the 10th
\* each one was answered with a reconnect.  WiFi_Init, released by the fail
\* signal alone, leaves isConnected false.
C2_ElevenDisconnectsFail ==
  /\ WIFI_FAIL_BIT \in bits <=> discRun >= WIFI_MAXIMUM_RETRY + 1
  /\ discRun <= WIFI_MAXIMUM_RETRY => s_retry_num = discRun
  /\ (ReleasedByFail /\ pc # "eval") => ~WiFi_isConnected

C2_Witness ==
  /\ ReleasedByFail
  /\ wifiRet # "none"
  /\ discRun = WIFI_MAXIMUM_RETRY + 1
  /\ gotIpCount = 0

\* C3: when the handler has processed N disconnect events (0 <= N <= 10)
\* and then one got-address event, and nothing after it, the retry counter
\* is 0 and the connected signal is posted; WiFi_Init, once it has returned,
\* has returned ESP_OK from the connected branch.
C3_LinkUpAfterRetries ==
  (gotIpCount = 1 /\ discRun = 0) =>
     /\ discBeforeUp \in 0..WIFI_MAXIMUM_RETRY
     /\ s_retry_num = 0
     /\ WIFI_CONNECTED_BIT \in bits
     /\ WIFI_FAIL_BIT \notin bits
     /\ wifiRet # "none" =>
           (wifiRet = ESP_OK /\ WIFI_CONNECTED_BIT \in waitBits /\ WiFi_isConnected)

C3_Witness ==
  /\ wifiRet = ESP_OK
  /\ gotIpCount = 1
  /\ discRun = 0
  /\ discBeforeUp = WIFI_MAXIMUM_RETRY
  /\ s_retry_num = 0

\* C4: with readable credentials and a driver that answers every connect
\* request, a task waiting in WiFi_Init is eventually released and WiFi_Init
\* comes to its end (the return, or the abort of a failed unregister call).
C4_InitIsReleased ==
  (pc = "wait") ~> (wifiRet # "none" \/ pc = "aborted")

C4_Witness ==
  /\ pc = "eval"
  /\ ReleasedByFail
  /\ discRun = WIFI_MAXIMUM_RETRY + 1

\* C5: a disconnect event that occurs after WiFi_Init returned with the link
\* up makes WiFi_isConnected() false.
C5_LinkLossSurfaces ==
  (ev.kind = "DISCONNECTED" /\ ev.afterReturn) => ~WiFi_isConnected

\* C6: a disconnect event that occurs after WiFi_Init returned successfully
\* is answered with a new connect request, unless the retry budget is used up.
C6_ReconnectAfterReturn ==
  (ev.kind = "DISCONNECTED" /\ ev.afterReturn) =>
     (ev.connect \/ s_retry_num = WIFI_MAXIMUM_RETRY)

\* C7: app_main calls MQTT_Init only if a got-address event occurred.
C7_MqttOnlyAfterLinkUp ==
  MqttInitCalled => gotIpCount > 0

\* C8: a call of MQTT_Transmit while the connection flag is false returns
\* ESP_FAIL, hands no publish to the client and changes neither the queue nor
\* any other state of the messaging client.
C8_TransmitNotConnected ==
  [][ (txCalls' # txCalls /\ ~mqtt_isConnected) =>
        /\ txRet' = ESP_FAIL
        /\ pubCount' = pubCount
        /\ lastPub' = lastPub
        /\ rxItems' = rxItems
        /\ UNCHANGED <<mpc, client, mqtt_isConnected, BaseTopic, xRxQueue, hpc, cur,
                       broker, crashed, mqttRet, lastSub, pendingAcks>> ]_vars

C8_Witness ==
  /\ txCalls > 0
  /\ pubCount = 0
  /\ txRet = ESP_FAIL
  /\ ~mqtt_isConnected
  /\ rxItems # <<>>

\* Every data event so far had a topic longer than the namespace plus "/".
AllValid ==
  \A i \in 1..Len(dataLog) : Len(dataLog[i].topic) > Len(DeviceBase) + 1

\* The message the k-th data event stands for: the topic after the
\* namespace and the separator, and the data.
Expected(k) ==
  [SubTopic |-> SubSeq(dataLog[k].topic, Len(DeviceBase) + 2, Len(dataLog[k].topic)),
   Payload |-> dataLog[k].data,
   id |-> k]

\* C9: while no consumer has received and only valid data events arrived,
\* after k events the queue holds the messages of the last min(k, 10) of
\* them, oldest first; after 11 events these are m2..m11.
C9_DropOldestFifo ==
  (hpc = "idle" /\ ~crashed /\ consumed = 0 /\ AllValid) =>
     LET k == Len(dataLog)
         n == Min(k, MAX_RXMSG)
     IN /\ Len(rxItems) = n
        /\ \A i \in 1..n : rxItems[i] = Expected(k - n + i)

C9_Witness ==
  /\ hpc = "idle"
  /\ consumed = 0
  /\ AllValid
  /\ Len(dataLog) = MAX_RXMSG + 1
  /\ Len(rxItems) = MAX_RXMSG
  /\ rxItems[1].id = 2
  /\ rxItems[MAX_RXMSG].id = MAX_RXMSG + 1

\* C10: no message in the queue comes from a data event whose topic is just
\* the namespace followed by the separator; a queued message's topic was
\* strictly longer than that.
C10_EmptyRelativeTopicDropped ==
  \A i \in 1..Len(rxItems) :
     Len(dataLog[rxItems[i].id].topic) > Len(BaseTopic) + 1

\* The event dataLog[k] has been handled to its end.
Handled(k) == k < Len(dataLog) \/ (k = Len(dataLog) /\ hpc = "idle" /\ ~crashed)

\* The ids of the messages in the queue.
QueuedIds == { rxItems[i].id : i \in 1..Len(rxItems) }

\* C11: no message that is or was in the queue comes from a data event
\* whose topic is as long as the namespace or shorter.
C11_ShortTopicDropped ==
  \A id \in QueuedIds \cup { taken[j] : j \in 1..Len(taken) } :
     Len(dataLog[id].topic) > Len(BaseTopic)

C11_Witness ==
  /\ Len(dataLog) = 3
  /\ Handled(3)
  /\ Len(dataLog[2].topic) = Len(BaseTopic)
  /\ QueuedIds = {1, 3}
  /\ taken = <<>>

\* C12: the queue never holds more than MAX_RXMSG messages; both queue
\* calls of the handler are made with a wait time of 0, and wherever the
\* handler stands inside a data event its next step can be taken at once,
\* whatever the queue holds and whatever the consumers did.
C12_HandlerNeverBlocks ==
  /\ Len(rxItems) <= MAX_RXMSG
  /\ RxWaitTicks = 0
  /\ TxWaitTicks = 0
  /\ (hpc = "evict" /\ Alive) => ENABLED DataEvict
  /\ (hpc = "copy" /\ Alive) => ENABLED DataEnqueue

\* The handler saw a full queue, the consumers emptied it, and the eviction
\* returned at once with nothing.
C12_Witness ==
  /\ hpc = "copy"
  /\ cur.id = MAX_RXMSG + 1
  /\ consumed = MAX_RXMSG
  /\ evicted = 0
  /\ rxItems = <<>>

\* C13: every publish request handed to the client has a topic that starts
\* with the namespace and the separator, QoS 1 and retain off.
C13_PublishesInNamespace ==
  pubCount > 0 =>
     /\ lastPub.qos = 1
     /\ lastPub.retain = FALSE
     /\ Len(lastPub.topic) > Len(BaseTopic)
     /\ SubSeq(lastPub.topic, 1, Len(BaseTopic) + 1) = BaseTopic \o Slash

\* MQTT_Init came past the reading of the broker URL without a URL: no
\* client was created.
UrlUnreadable == mpc \notin {"idle", "nvs", "client"} /\ client = "null"

\* C14: when the broker URL cannot be read, MQTT_Init returns an error value
\* to its caller; the process is not aborted and no client is started.
C14_UnreadableUrlReturned ==
  UrlUnreadable => (mpc # "aborted" /\ mqttRet \notin {"none", ESP_OK})

\* C15: when WiFi_Init has returned ESP_FAIL, no handler is registered, the
\* driver was not started, no event group exists that it could have waited
\* on, no event was handled (so no connect request was issued), and the
\* retry counter and the connection flag are as they were.
C15_CredentialFailureIsFatal ==
  wifiRet = ESP_FAIL =>
     /\ ~regWifi
     /\ ~regIp
     /\ driver = "off"
     /\ groupState = "null"
     /\ bits = {}
     /\ ev = NoEvent
     /\ s_retry_num = 0
     /\ ~WiFi_isConnected
     /\ pc \in {"wifi_ret", "loop"}

C15_Witness ==
  /\ wifiRet = ESP_FAIL
  /\ pc = "loop"
  /\ driver = "off"

\* C16: the connection flag is false until a broker-connected event was
\* handled, and always tells which lifecycle event was handled last; no
\* other event and no operation changes it.
C16_FlagTracksLifecycle ==
  /\ MQTT_isConnected = (broker = "up")
  /\ ~everConnected => ~MQTT_isConnected

C16_Witness ==
  /\ everConnected
  /\ ~MQTT_isConnected
  /\ logged # "none"
  /\ dataLog # <<>>
  /\ lastSub # NoSub
  /\ pubCount > 0

\* C17: a call of MQTT_Subscribe or MQTT_Unsubscribe hands the namespaced
\* topic to the client whatever the flag says, leaves the flag alone, and
\* returns ESP_FAIL exactly when the client returned a negative message id.
C17_SubscribeIgnoresFlag ==
  [][ (apiCalls' # apiCalls /\ txCalls' = txCalls) =>
        /\ lastSub'.op \in {"subscribe", "unsubscribe"}
        /\ lastSub'.topic = BaseTopic \o Slash \o lastSub'.sub
        /\ txRet' = ESP_FAIL <=> lastSub'.msg_id < 0
        /\ txRet' = ESP_OK <=> lastSub'.msg_id >= 0
        /\ mqtt_isConnected' = mqtt_isConnected ]_vars

C17_Witness ==
  /\ lastSub.op = "subscribe"
  /\ lastSub.topic = DeviceBase \o Slash \o Status
  /\ lastSub.msg_id < 0
  /\ txRet = ESP_FAIL
  /\ ~MQTT_isConnected
  /\ ~everConnected

\* The part of the topic of event k after the namespace and the separator.
RelativeTopic(k) == SubSeq(dataLog[k].topic, Len(BaseTopic) + 2, Len(dataLog[k].topic))

\* C18: with a queue at hand, every data event whose relative topic has at
\* least one byte is enqueued once it is handled, the handler survives it,
\* and the message holds the first min(L, 122) bytes of the relative topic
\* and the first min(D, 128) bytes of the data.
C18_TruncatedNeverRejected ==
  xRxQueue = "handle" =>
     /\ ~crashed
     /\ \A k \in 1..Len(dataLog) :
           (Handled(k) /\ Len(RelativeTopic(k)) >= 1) => k \in QueuedIds
     /\ \A i \in 1..Len(rxItems) :
           /\ rxItems[i].SubTopic = Take(RelativeTopic(rxItems[i].id), SubTopicCap)
           /\ rxItems[i].Payload = Take(dataLog[rxItems[i].id].data, MAX_PAYLOAD)

\* C19: a data event on the topic MQTT_Subscribe composed from SubTopic T
\* is enqueued, and its message holds T when T fits into the message's
\* SubTopic field and the first sizeof(SubTopic) bytes of T otherwise.
C19_TopicRoundTrip ==
  lastSub.op = "subscribe" =>
     /\ \A k \in 1..Len(dataLog) :
           (Handled(k) /\ dataLog[k].topic = lastSub.topic) => k \in QueuedIds
     /\ \A i \in 1..Len(rxItems) :
           dataLog[rxItems[i].id].topic = lastSub.topic =>
              rxItems[i].SubTopic = Take(lastSub.sub, SubTopicCap)

\* A SubTopic too long for the message came back cut to size.
C19_Witness ==
  /\ lastSub.op = "subscribe"
  /\ Len(lastSub.sub) > SubTopicCap
  /\ \E i \in 1..Len(rxItems) :
        /\ dataLog[rxItems[i].id].topic = lastSub.topic
        /\ Len(rxItems[i].SubTopic) = SubTopicCap
        /\ rxItems[i].SubTopic = SubSeq(lastSub.sub, 1, SubTopicCap)

\* C20: every removal from the queue is one consumer's receive or one
\* eviction; no message is removed twice, and a removed message is no longer
\* in the queue for anybody else to take.
C20_TakenAtMostOnce ==
  /\ Len(taken) = consumed + evicted
  /\ \A i, j \in 1..Len(taken) : i # j => taken[i] # taken[j]
  /\ \A i, j \in 1..Len(rxItems) : i # j => rxItems[i].id # rxItems[j].id
  /\ \A j \in 1..Len(taken) : taken[j] \notin QueuedIds

\* Consumers and the handler's eviction both took messages, with a
\* consumer's receive between the handler's test and its eviction.
C20_Witness ==
  /\ consumed >= 2
  /\ evicted >= 1
  /\ Len(taken) = consumed + evicted
  /\ hpc = "idle"
  /\ Len(rxItems) = MAX_RXMSG - 1

\* The task that called WiFi_Init has come past the wait.
Released == pc \in {"eval", "unreg_ip", "unreg_wifi", "delete"} \/ wifiRet = ESP_OK

\* C21: WiFi_Init comes past its wait only after the handler handled a
\* got-address event or a disconnect event beyond the retry budget; while
\* only disconnect events within the budget were handled, no signal is
\* posted and the caller stays blocked.
C21_ReleasedOnlyOnOutcome ==
  /\ Released => (gotIpCount > 0 \/ discRun > WIFI_MAXIMUM_RETRY)
  /\ (gotIpCount = 0 /\ discRun <= WIFI_MAXIMUM_RETRY) => bits = {}

\* Ten disconnect events were handled and the caller is still waiting.
C21_Witness ==
  /\ pc = "wait"
  /\ gotIpCount = 0
  /\ discRun = WIFI_MAXIMUM_RETRY
  /\ ev.kind = "DISCONNECTED"
  /\ ev.handled

C23_FreshBudgetOnRecall ==
  (initCalls > 1 /\ pc = "wait" /\ driver = "started") => s_retry_num = 0

\* C24: whenever WiFi_isConnected() is true and the handler handled the most
\* recent link event, that event was a got-address event.
C24_FlagAgreesWithLastEvent ==
  (WiFi_isConnected /\ ev.handled) => ev.kind = "GOT_IP"

\* C25: while the handler is busy with a data event whose topic fails the
\* validation, none of its steps changes the queue (a step that changes the
\* queue then is a consumer's).
C25_DroppedEventLeavesQueue ==
  [][ (hpc # "idle" /\ ~TopicAccepted(Len(BaseTopic), Len(cur.topic))
         /\ consumed' = consumed) => rxItems' = rxItems ]_vars

\* C26: the handler discards a message only when the queue holds
\* MAX_RXMSG messages at the instant of the eviction.
C26_EvictOnlyWhenFull ==
  [][ evicted' # evicted => Len(rxItems) = MAX_RXMSG ]_vars

\* C27: no broker event is handled before MQTT_Init has come to its end; no
\* data event finds a NULL queue or an empty base topic; when MQTT_Init has
\* returned ESP_OK, the queue exists.
C27_InitBeforeEvents ==
  /\ mpc # "done" => (~everConnected /\ logged = "none" /\ dataLog = <<>>)
  /\ dataLog # <<>> => (BaseTopic # <<>> /\ ~crashed)
  /\ mqttRet = ESP_OK => xRxQueue = "handle"

\* The handler has run the copy statements for the event dataLog[k].
Copied(k) ==
  /\ TopicAccepted(Len(BaseTopic), Len(dataLog[k].topic))
  /\ Handled(k) \/ (k = Len(dataLog) /\ hpc = "copy" /\ crashed)

\* C28: the handler copies fewer bytes into cBuffer than cBuffer holds, so
\* that a terminator stays inside it, and every message's SubTopic is shorter
\* than the SubTopic field, so that it is terminated inside the field.
C28_BoundedScratchCopy ==
  /\ \A k \in 1..Len(dataLog) : Copied(k) => Len(RelativeTopic(k)) < MAX_TOPIC_LEN
  /\ \A i \in 1..Len(rxItems) : Len(rxItems[i].SubTopic) < SubTopicCap

====
